---- MODULE Spec2Model ----
(***************************************************************************)
(* Model of subiquity/server/apt.py: AptConfigurer and DryRunAptConfigurer. *)
(*                                                                         *)
(* One session object (self) is shared by the configure / deconfigure      *)
(* coroutines a caller starts on it.  Coroutines only interleave at an     *)
(* await, so every action below is the code between two awaits: the        *)
(* completion of the awaited external command followed by all synchronous  *)
(* code up to the issue of the next command.                               *)
(*                                                                         *)
(* The file system is modelled by the paths the code touches; a directory  *)
(* tree is a function from those paths to their content.                   *)
(***************************************************************************)
EXTENDS Integers, Sequences, FiniteSets, TLC

VARIABLES
    variant,      \* "real" (AptConfigurer) or "dry" (DryRunAptConfigurer)
    configured,   \* self.configured
    mounts,       \* self._mounts
    tdirs,        \* self._tdirs
    has_network,  \* app.base_model.network.has_network
    exists,       \* scratch directories present on disk
    tree,         \* content of every directory
    mtab,         \* the kernel's mount table
    calls,        \* the coroutines started on the session, in start order
    mountlog      \* history: the mount commands run, each with its result

vars == <<variant, configured, mounts, tdirs, has_network, exists, tree,
          mtab, calls, mountlog>>

(* ------------------------------ bounds --------------------------------- *)
MaxCalls == 2        \* coroutines a caller starts on one session

(* ------------------------------ paths ---------------------------------- *)
NoneDir == 0
SourceRoot == -1
InstalledRoot == -2
TdirIds == 1..(4 * MaxCalls)
Dirs == TdirIds \cup {SourceRoot, InstalledRoot}

Path(d, sub) == [d |-> d, sub |-> sub]

Absent == "-"
Whiteout == "wh"
\* etc/apt, its sources.list, sources.list.d, sources.list.d/original.list
\* and apt.conf.d/90curtin-aptproxy; var/lib/apt/lists; cdrom
Keys == {"apt", "sl", "sld", "orig", "proxy", "lists", "cdrom"}
EmptyTree == [k \in Keys |-> Absent]

\* restore_dirs entries and the modelled paths below each of them
DirKeys(dir) ==
    IF dir = "etc/apt" THEN {"apt", "sl", "sld", "orig", "proxy"}
    ELSE {"lists"}
DirRoot(dir) == IF dir = "etc/apt" THEN "apt" ELSE "lists"

Codenames == {"xyz", "jammy"}
\* mutant: the line without the check-date option
MediaLinePlain(codename) ==
    "deb file:///cdrom " \o codename \o " main restricted\n"

\* line 141: the content written to for_install/etc/apt/sources.list
MediaLine(codename) ==
    "deb [check-date=no] file:///cdrom " \o codename \o " main restricted\n"

\* a lower-layer string: the colon-joined list of its parts, each part a
\* directory, the first possibly prefixed by the marker 'u+'
Handle(mark, d) == [mark |-> mark, d |-> d]
NoHandle == Handle(FALSE, NoneDir)

(* --------------------------- file system ------------------------------- *)
RECURSIVE Resolve(_, _, _)
Resolve(tr, layers, k) ==
    IF layers = <<>> THEN Absent
    ELSE LET v == tr[Head(layers)][k]
         IN  IF v = Absent THEN Resolve(tr, Tail(layers), k)
             ELSE IF v = Whiteout THEN Absent
             ELSE v

OverlaysAt(mt, d) == {m \in mt : m.mp = Path(d, "") /\ m.type = "overlay"}
OverlayAt(mt, d) == CHOOSE m \in OverlaysAt(mt, d) : TRUE
Layers(m) == <<m.upper>> \o m.lower

\* what a read of d/k sees
Look(tr, mt, d, k) ==
    IF OverlaysAt(mt, d) # {}
    THEN Resolve(tr, Layers(OverlayAt(mt, d)), k)
    ELSE tr[d][k]

\* mutant: a write through an overlay lands in its lowest layer
WriteLayerThrough(mt, d) ==
    IF OverlaysAt(mt, d) # {}
    THEN OverlayAt(mt, d).lower[Len(OverlayAt(mt, d).lower)]
    ELSE d

\* the directory a write below d lands in
WriteLayer(mt, d) ==
    IF OverlaysAt(mt, d) # {} THEN OverlayAt(mt, d).upper ELSE d

Put(tr, mt, d, k, v) == [tr EXCEPT ![WriteLayer(mt, d)][k] = v]

Gone(tr, mt, d, k) ==
    IF OverlaysAt(mt, d) # {}
       /\ Resolve(tr, OverlayAt(mt, d).lower, k) # Absent
    THEN Whiteout ELSE Absent

Del(tr, mt, d, k) == [tr EXCEPT ![WriteLayer(mt, d)][k] = Gone(tr, mt, d, k)]

\* shutil.rmtree(f'{d}/{dir}')
RmSub(tr, mt, d, dir) ==
    [tr EXCEPT ![WriteLayer(mt, d)] =
        [k \in Keys |-> IF k \in DirKeys(dir) THEN Gone(tr, mt, d, k) ELSE @[k]]]

\* cp -aT {from}/{dir} {to}/{dir}: entries of the source replace or are added
\* to the target's, entries only the target has stay
CopySub(tr, mt, from, to, dir) ==
    [tr EXCEPT ![WriteLayer(mt, to)] =
        [k \in Keys |->
            IF k \in DirKeys(dir) /\ Look(tr, mt, from, k) # Absent
            THEN Look(tr, mt, from, k) ELSE @[k]]]

\* the content of d/{dir} as a reader sees it
SubView(tr, mt, d, dir) == [k \in DirKeys(dir) |-> Look(tr, mt, d, k)]

Mountpoints(mt) == {m.mp : m \in mt}
\* umount succeeds on a mountpoint with nothing mounted below it
CanUmount(mt, p) ==
    /\ p \in Mountpoints(mt)
    /\ ~\E m \in mt : m.mp.d = p.d /\ m.mp.sub # "" /\ p.sub = ""
Umounted(mt, p) == {m \in mt : m.mp # p}
\* a directory with a mountpoint at or below it cannot be removed
Busy(mt, d) == \E m \in mt : m.mp.d = d
DirExists(ex, d) == d \in ex \/ d \in {SourceRoot, InstalledRoot}

(* ------------------------------ session -------------------------------- *)
SourceTree ==
    [k \in Keys |->
        CASE k = "apt" -> "dir"
          [] k = "sl" -> "distro"
          [] k = "sld" -> "dir"
          [] k = "lists" -> "index of distro"
          [] OTHER -> Absent]

\* the sources the session is constructed on: with an empty
\* sources.list.d, with a fragment in it, or with a directory /cdrom
SourceTrees ==
    {SourceTree, [SourceTree EXCEPT !["orig"] = "fragment"],
     [SourceTree EXCEPT !["cdrom"] = "dir"]}

\* the installed system: the tree installed from the root configure
\* prepared, with the media bound at its /cdrom
InstalledTree ==
    [k \in Keys |->
        CASE k = "apt" -> "dir"
          [] k = "sl" -> MediaLine("xyz")
          [] k = "sld" -> "dir"
          [] k = "orig" -> "distro"
          [] k = "lists" -> "index of media"
          [] k = "cdrom" -> "dir"
          [] OTHER -> Absent]

NoApt == [k \in DirKeys("etc/apt") |-> Absent]

NewCall(op, target, ordered, snap) ==
    [op |-> op, pc |-> "start", target |-> target,
     source |-> <<>>, otarget |-> NoneDir, tdir |-> NoneDir,
     config_upper |-> NoHandle, for_install |-> NoneDir, root |-> NoneDir,
     restore |-> <<>>, i |-> 0, ret |-> NoneDir,
     \* history of the call
     ordered |-> ordered, snap |-> snap, unmounts |-> <<>>, updates |-> <<>>,
     results |-> <<>>, removed |-> {}, nets |-> <<>>, moved |-> FALSE, unlinked |-> FALSE,
     hadproxy |-> FALSE, failure |-> "", copied |-> <<>>, codename |-> ""]

Init ==
    /\ variant \in {"real", "dry"}
    /\ configured = NoneDir
    /\ mounts = <<>>
    /\ tdirs = <<>>
    /\ has_network \in BOOLEAN
    /\ exists = {}
    /\ \E src \in SourceTrees :
         tree = [d \in Dirs |->
                   IF d = SourceRoot THEN src
                   ELSE IF d = InstalledRoot THEN InstalledTree
                   ELSE EmptyTree]
    /\ mtab = {[mp |-> Path(InstalledRoot, "cdrom"), type |-> "bind",
                lower |-> <<>>, upper |-> NoneDir]}
    /\ calls = <<>>
    /\ mountlog = <<>>

Fail(rec, step) == [rec EXCEPT !.pc = "failed", !.failure = step]

\* tempfile.mkdtemp(): a name no earlier call returned
NewTdir(ts) == Len(ts) + 1

\* AptConfigurer.tdir
Tdir(ts) == Append(ts, NewTdir(ts))

\* mutant: the mountpoint is recorded whatever the command returned
TrackedAlways(ms, mountpoint, ok) == Append(ms, mountpoint)

\* mutant: only the mountpoints of overlays are recorded
TrackedOverlaysOnly(ms, mountpoint, ok) ==
    IF ok /\ mountpoint.sub = "" THEN Append(ms, mountpoint) ELSE ms

\* AptConfigurer.mount, after the await: the tracked list
Tracked(ms, mountpoint, ok) == IF ok THEN Append(ms, mountpoint) ELSE ms

\* mutant: the layers are searched right to left
LowerDirsReversed(source) ==
    [n \in 1..Len(source) |-> source[Len(source) + 1 - n].d]

\* the lower layers the kernel reads from lowerdir={source}
LowerDirs(source) == [n \in 1..Len(source) |-> source[n].d]

\* mutant: the copy is always taken from the last part, the original source
DrySourceLast(source) ==
    IF source # <<>> /\ Head(source).mark
    THEN <<source[Len(source)]>>
    ELSE source

\* DryRunAptConfigurer.setup_overlay: source.split(':')[0][2:] when the
\* string starts with the marker
DrySource(source) ==
    IF source # <<>> /\ Head(source).mark
    THEN <<Handle(FALSE, Head(source).d)>>
    ELSE source

\* mutant: the upper and work layers are made inside the target, without
\* a scratch directory of their own
SetupOverlayBeginInTarget(rec, source, target, pc, ts) ==
    [rec |-> [rec EXCEPT !.source = IF variant = "real" THEN source
                                     ELSE DrySource(source),
                         !.otarget = target,
                         !.tdir = IF variant = "real" THEN target ELSE @,
                         !.pc = pc],
     tdirs |-> ts]

\* setup_overlay up to its await.  Result: the call, _tdirs.
SetupOverlayBegin(rec, source, target, pc, ts) ==
    IF variant = "real"
    THEN [rec |-> [rec EXCEPT !.source = source, !.otarget = target,
                              !.tdir = NewTdir(ts), !.pc = pc],
          tdirs |-> Tdir(ts)]
    ELSE [rec |-> [rec EXCEPT !.source = DrySource(source),
                              !.otarget = target, !.pc = pc],
          tdirs |-> ts]

\* can the command setup_overlay awaits succeed
SetupOverlayCan(rec, ex, tr, mt) ==
    IF variant = "real"
    THEN /\ DirExists(ex, rec.otarget)
         /\ DirExists(ex, rec.tdir)
         /\ \A n \in 1..Len(rec.source) : DirExists(ex, rec.source[n].d)
    ELSE /\ DirExists(ex, rec.otarget)
         /\ Len(rec.source) = 1
         /\ DirExists(ex, rec.source[1].d)
         /\ Look(tr, mt, rec.source[1].d, "apt") # Absent

OverlayMount(rec) ==
    [mp |-> Path(rec.otarget, ""), type |-> "overlay",
     lower |-> LowerDirs(rec.source), upper |-> rec.tdir]

BindMount(p) == [mp |-> p, type |-> "bind", lower |-> <<>>, upper |-> NoneDir]

\* setup_overlay after its await succeeded: the value it returns
SetupOverlayReturn(rec) ==
    IF variant = "real" THEN Handle(FALSE, rec.tdir)
    ELSE Handle(TRUE, rec.otarget)

\* DryRunAptConfigurer.setup_overlay after cp: sources.list.d is removed
\* with what it holds and made anew
DryCopy(tr, mt, rec) ==
    Put(Del(CopySub(tr, mt, rec.source[1].d, rec.otarget, "etc/apt"),
            mt, rec.otarget, "orig"),
        mt, rec.otarget, "sld", "dir")

IndexOf(sl) == IF sl = "distro" \/ sl = "mirror" THEN "index of " \o sl
               ELSE "index of media"

\* the effects of the command setup_overlay awaits, when it succeeded
SetupOverlayTree(tr, mt, rec) ==
    IF variant = "real" THEN tr ELSE DryCopy(tr, mt, rec)
SetupOverlayMtab(mt, rec) ==
    IF variant = "real" THEN mt \cup {OverlayMount(rec)} ELSE mt
\* mutant: setup_overlay mounts without recording the mountpoint
SetupOverlayMountsNone(ms, rec, ok) == ms

SetupOverlayMounts(ms, rec, ok) ==
    IF variant = "real" THEN Tracked(ms, Path(rec.otarget, ""), ok) ELSE ms
SetupOverlayLog(log, rec, ok) ==
    IF variant = "real"
    THEN Append(log, [mp |-> Path(rec.otarget, ""), ok |-> ok])
    ELSE log

\* the state machine of the design: configure from Unconfigured only,
\* deconfigure from Configured only
ConfigureInOrder == calls = <<>>
DeconfigureInOrder ==
    Len(calls) = 1 /\ calls[1].op = "configure" /\ calls[1].pc = "done"

\* await points: the call is suspended on an external command
Waiting(c, pc) == c \in DOMAIN calls /\ calls[c].pc = pc

(* ------------------------------ configure ------------------------------ *)
\* configure up to the first await (lines 102-104, 58-66 / 179-187)
Configure ==
    /\ Len(calls) < MaxCalls
    /\ LET cfg == NewTdir(tdirs)
           b == SetupOverlayBegin(
                    NewCall("configure", NoneDir, ConfigureInOrder, NoApt),
                    <<Handle(FALSE, SourceRoot)>>, cfg, "c_overlay1",
                    Tdir(tdirs))
       IN  /\ configured' = cfg
           /\ tdirs' = b.tdirs
           /\ exists' = exists \cup
                          {b.tdirs[n] : n \in Len(tdirs)+1..Len(b.tdirs)}
           /\ calls' = Append(calls, b.rec)
    /\ UNCHANGED <<variant, mounts, has_network, tree, mtab, mountlog>>

\* the first setup_overlay returns; the config is written and curtin
\* apt-config is started on self.configured (lines 104-120)
SetupOverlay1Done(c) ==
    /\ Waiting(c, "c_overlay1")
    /\ \E ok \in BOOLEAN :
        LET rec == calls[c] IN
        /\ ok => SetupOverlayCan(rec, exists, tree, mtab)
        /\ mounts' = SetupOverlayMounts(mounts, rec, ok)
        /\ mountlog' = SetupOverlayLog(mountlog, rec, ok)
        /\ IF ok
           THEN /\ tree' = SetupOverlayTree(tree, mtab, rec)
                /\ mtab' = SetupOverlayMtab(mtab, rec)
                /\ calls' = [calls EXCEPT ![c] =
                       [rec EXCEPT !.config_upper = SetupOverlayReturn(rec),
                                   !.root = configured,
                                   !.pc = "c_aptconfig"]]
           ELSE /\ calls' = [calls EXCEPT ![c] = Fail(rec, "setup_overlay")]
                /\ UNCHANGED <<tree, mtab>>
    /\ UNCHANGED <<variant, configured, tdirs, has_network, exists>>

\* curtin apt-config returns; for_install is allocated and the second
\* setup_overlay runs up to its await (lines 118-123)
AptConfigDone(c) ==
    /\ Waiting(c, "c_aptconfig")
    /\ \E ok \in BOOLEAN, proxy \in {Absent, "proxy"} :
        LET rec == calls[c] IN
        /\ ok => DirExists(exists, rec.root)
        /\ ~ok => proxy = Absent
        /\ IF ok
           THEN LET written == Put(tree, mtab, rec.root, "sl", "mirror")
                    for_install == NewTdir(tdirs)
                    b == SetupOverlayBegin(
                             [rec EXCEPT !.for_install = for_install],
                             <<rec.config_upper, Handle(FALSE, SourceRoot)>>,
                             for_install, "c_overlay2", Tdir(tdirs))
                IN  /\ tree' = IF proxy = Absent THEN written
                               ELSE Put(written, mtab, rec.root, "proxy", proxy)
                    /\ tdirs' = b.tdirs
                    /\ exists' = exists \cup
                                   {b.tdirs[n] : n \in Len(tdirs)+1..Len(b.tdirs)}
                    /\ calls' = [calls EXCEPT ![c] = b.rec]
           ELSE /\ calls' = [calls EXCEPT ![c] = Fail(rec, "apt-config")]
                /\ UNCHANGED <<tree, tdirs, exists>>
    /\ UNCHANGED <<variant, configured, mounts, has_network, mtab, mountlog>>

\* the second setup_overlay returns; for_install/cdrom is made and the
\* bind mount is started (lines 123-126, 45-52)
SetupOverlay2Done(c) ==
    /\ Waiting(c, "c_overlay2")
    /\ \E ok \in BOOLEAN :
        LET rec == calls[c] IN
        /\ ok => SetupOverlayCan(rec, exists, tree, mtab)
        /\ mounts' = SetupOverlayMounts(mounts, rec, ok)
        /\ mountlog' = SetupOverlayLog(mountlog, rec, ok)
        /\ IF ok
           THEN LET mt == SetupOverlayMtab(mtab, rec)
                    tr == SetupOverlayTree(tree, mtab, rec)
                IN  /\ mtab' = mt
                    /\ IF Look(tr, mt, rec.for_install, "cdrom") # Absent
                          \/ ~DirExists(exists, rec.for_install)
                       THEN \* os.mkdir raises
                            /\ tree' = tr
                            /\ calls' = [calls EXCEPT ![c] = Fail(rec, "mkdir")]
                       ELSE /\ tree' = Put(tr, mt, rec.for_install, "cdrom", "dir")
                            /\ calls' = [calls EXCEPT ![c] =
                                   [rec EXCEPT !.pc = "c_bind"]]
           ELSE /\ calls' = [calls EXCEPT ![c] = Fail(rec, "setup_overlay")]
                /\ UNCHANGED <<tree, mtab>>
    /\ UNCHANGED <<variant, configured, tdirs, has_network, exists>>

\* mutant: the proxy fragment is removed on both branches
NetworkBranchBoth(tr, mt, rec, net) ==
    LET fi == rec.for_install
        seen == [rec EXCEPT !.nets = Append(@, net),
                            !.hadproxy = Look(tr, mt, fi, "proxy") # Absent]
        moved == IF net
                 THEN Del(Put(tr, mt, fi, "orig", Look(tr, mt, fi, "sl")),
                          mt, fi, "sl")
                 ELSE tr
    IN  [tree |-> Del(moved, mt, fi, "proxy"),
         rec |-> [seen EXCEPT !.moved = net,
                              !.unlinked = Look(tr, mt, fi, "proxy") # Absent]]

\* lines 128-135: the branch on has_network.  Result: the tree, the call.
NetworkBranch(tr, mt, rec, net) ==
    LET fi == rec.for_install
        seen == [rec EXCEPT !.nets = Append(@, net),
                            !.hadproxy = Look(tr, mt, fi, "proxy") # Absent]
    IN  IF net
        THEN [tree |-> Del(Put(tr, mt, fi, "orig", Look(tr, mt, fi, "sl")),
                           mt, fi, "sl"),
              rec |-> [seen EXCEPT !.moved = TRUE]]
        ELSE IF Look(tr, mt, fi, "proxy") # Absent
        THEN [tree |-> Del(tr, mt, fi, "proxy"),
              rec |-> [seen EXCEPT !.unlinked = TRUE]]
        ELSE [tree |-> tr, rec |-> seen]

\* the bind mount returns; the network branch, the media source list and
\* the start of apt-get update in for_install (lines 126-145)
BindMountDone(c) ==
    /\ Waiting(c, "c_bind")
    /\ \E ok \in BOOLEAN, codename \in Codenames :
        LET rec == calls[c]
            mountpoint == Path(rec.for_install, "cdrom")
        IN
        /\ ok => /\ DirExists(exists, rec.for_install)
                 /\ Look(tree, mtab, rec.for_install, "cdrom") # Absent
        /\ ~ok => codename = "xyz"
        /\ mounts' = Tracked(mounts, mountpoint, ok)
        /\ mountlog' = Append(mountlog, [mp |-> mountpoint, ok |-> ok])
        /\ IF ok
           THEN LET mt == mtab \cup {BindMount(mountpoint)} IN
                /\ mtab' = mt
                /\ IF has_network
                      /\ \/ Look(tree, mt, rec.for_install, "sl") = Absent
                         \/ Look(tree, mt, rec.for_install, "sld") = Absent
                   THEN \* os.rename raises
                        /\ tree' = tree
                        /\ calls' = [calls EXCEPT ![c] =
                               Fail([rec EXCEPT !.nets = Append(@, TRUE)],
                                    "rename")]
                   ELSE LET b == NetworkBranch(tree, mt, rec, has_network) IN
                        /\ tree' = Put(b.tree, mt, rec.for_install, "sl",
                                       MediaLine(codename))
                        /\ calls' = [calls EXCEPT ![c] =
                               [b.rec EXCEPT !.root = rec.for_install,
                                             !.codename = codename,
                                             !.pc = "c_update"]]
           ELSE /\ calls' = [calls EXCEPT ![c] = Fail(rec, "mount")]
                /\ UNCHANGED <<tree, mtab>>
    /\ UNCHANGED <<variant, configured, tdirs, has_network, exists>>

\* mutant: configure returns the configured root
ConfigureReturnConfigured(rec) == configured

\* line 147: the value configure returns
ConfigureReturn(rec) == rec.for_install

\* apt-get update in for_install returns; configure returns for_install
\* (lines 143-147)
ConfigureUpdateDone(c) ==
    /\ Waiting(c, "c_update")
    /\ \E ok \in BOOLEAN :
        LET rec == calls[c] IN
        /\ ok => /\ DirExists(exists, rec.root)
                 /\ Look(tree, mtab, rec.root, "sl") # Absent
        /\ IF ok
           THEN /\ tree' = Put(tree, mtab, rec.root, "lists",
                               IndexOf(Look(tree, mtab, rec.root, "sl")))
                /\ calls' = [calls EXCEPT ![c] =
                       [rec EXCEPT !.pc = "done", !.ret = ConfigureReturn(rec)]]
           ELSE /\ tree' = tree
                /\ calls' = [calls EXCEPT ![c] = Fail(rec, "update")]
    /\ UNCHANGED <<variant, configured, mounts, tdirs, has_network, exists,
                   mtab, mountlog>>

\* the network model changes under the session
NetworkChange ==
    /\ has_network' = ~has_network
    /\ UNCHANGED <<variant, configured, mounts, tdirs, exists, tree, mtab,
                   calls, mountlog>>

(* ----------------------------- deconfigure ----------------------------- *)
\* the roots a caller passes as target: a root configure returned, or the
\* installed system
Targets ==
    {InstalledRoot} \cup
    {calls[c].ret : c \in {x \in DOMAIN calls : calls[x].op = "configure"
                                                /\ calls[x].pc = "done"}}

\* tracked mountpoints that are mounted
StillMounted(ms, mt) == {n \in DOMAIN ms : ms[n] \in Mountpoints(mt)}

\* a mount of the table uses directory d: as mountpoint or as a layer
Referenced(mt, d) ==
    \E m \in mt : \/ m.mp.d = d
                  \/ m.upper = d
                  \/ \E n \in DOMAIN m.lower : m.lower[n] = d

\* for d in self._tdirs: shutil.rmtree(d), which raises on a directory
\* that is gone and on one that holds a mountpoint (line 169-170)
RECURSIVE RmLoop(_, _, _, _, _)
RmLoop(ds, ex, tr, mt, removed) ==
    IF ds = <<>>
    THEN [ok |-> TRUE, exists |-> ex, tree |-> tr, removed |-> removed]
    ELSE IF Head(ds) \notin ex \/ Busy(mt, Head(ds))
    THEN [ok |-> FALSE, exists |-> ex, tree |-> tr, removed |-> removed]
    ELSE RmLoop(Tail(ds), ex \ {Head(ds)},
                [tr EXCEPT ![Head(ds)] = EmptyTree], mt,
                removed \cup {Head(ds)})

\* issue of apt-get update in target (lines 163-165, 172-174)
StartUpdate(rec, pc, mt) ==
    [rec EXCEPT !.pc = pc, !.root = rec.target,
                !.updates = Append(@, Cardinality(StillMounted(mounts, mt)))]

\* lines 169-174: remove the scratch directories, then the second update.
\* Result: the call, the directories, the tree.
Teardown(rec, ex, tr, mt) ==
    LET r == RmLoop(tdirs, ex, tr, mt, {})
        rm == [rec EXCEPT !.removed = r.removed]
    IN  [exists |-> r.exists, tree |-> r.tree,
         rec |-> IF ~r.ok THEN Fail(rm, "rmtree")
                 ELSE IF has_network
                 THEN StartUpdate([rm EXCEPT !.nets = Append(@, TRUE)],
                                  "d_update2", mt)
                 ELSE [rm EXCEPT !.nets = Append(@, FALSE), !.pc = "done"]]

\* lines 167-168: entry of the loop over reversed(self._mounts)
UnmountLoop(rec, ex, tr, mt) ==
    IF mounts = <<>> THEN Teardown(rec, ex, tr, mt)
    ELSE [exists |-> ex, tree |-> tr,
          rec |-> [rec EXCEPT !.pc = "d_umount", !.i = Len(mounts),
                              !.unmounts = Append(@, mounts[Len(mounts)])]]

\* mutant: a failed unmount is skipped and the loop goes on
UnmountNextIgnore(rec, ok, ex, tr, mt) ==
    IF rec.i > 1
    THEN [exists |-> ex, tree |-> tr,
          rec |-> [rec EXCEPT !.i = rec.i - 1,
                              !.unmounts = Append(@, mounts[rec.i - 1])]]
    ELSE Teardown(rec, ex, tr, mt)

\* line 168: one unmount of the loop returned
UnmountNext(rec, ok, ex, tr, mt) ==
    IF ~ok THEN [exists |-> ex, tree |-> tr, rec |-> Fail(rec, "umount")]
    ELSE IF rec.i > 1
    THEN [exists |-> ex, tree |-> tr,
          rec |-> [rec EXCEPT !.i = rec.i - 1,
                              !.unmounts = Append(@, mounts[rec.i - 1])]]
    ELSE Teardown(rec, ex, tr, mt)

\* lines 162-165: the first update, or straight on to the unmounts
AfterRestore(rec, ex, tr, mt) ==
    IF has_network
    THEN [exists |-> ex, tree |-> tr,
          rec |-> StartUpdate([rec EXCEPT !.nets = Append(@, TRUE)],
                              "d_update1", mt)]
    ELSE UnmountLoop([rec EXCEPT !.nets = Append(@, FALSE)], ex, tr, mt)

\* lines 153-155
RestoreDirs(net) ==
    IF net THEN <<"etc/apt">> ELSE <<"etc/apt", "var/lib/apt/lists">>

\* lines 157-160: rmtree of target/dir and issue of the copy of the first
\* directory of dirs, or the end of the loop
RestoreNext(rec, dirs, ex, tr, mt) ==
    IF dirs = <<>> THEN AfterRestore(rec, ex, tr, mt)
    ELSE IF ~DirExists(ex, rec.target)
            \/ Look(tr, mt, rec.target, DirRoot(Head(dirs))) = Absent
    THEN [exists |-> ex, tree |-> tr, rec |-> Fail(rec, "rmtree")]
    ELSE [exists |-> ex, tree |-> RmSub(tr, mt, rec.target, Head(dirs)),
          rec |-> [rec EXCEPT !.pc = "d_cp", !.restore = dirs,
                              !.root = configured]]

AptSnapshot ==
    IF configured = NoneDir THEN NoApt
    ELSE SubView(tree, mtab, configured, "etc/apt")

\* deconfigure up to its first await (line 150), or all of it (line 194)
Deconfigure ==
    /\ Len(calls) < MaxCalls
    /\ \E target \in Targets :
        LET rec == NewCall("deconfigure", target, DeconfigureInOrder,
                           AptSnapshot)
        IN  calls' = Append(calls,
                IF variant = "dry" THEN [rec EXCEPT !.pc = "done"]
                ELSE [rec EXCEPT !.pc = "d_umount_cdrom",
                                 !.unmounts = <<Path(target, "cdrom")>>])
    /\ UNCHANGED <<variant, configured, mounts, tdirs, has_network, exists,
                   tree, mtab, mountlog>>

\* the unmount of target/cdrom returns; rmdir, restore_dirs, and the first
\* round of the restore loop up to cp (lines 150-160)
UmountCdromDone(c) ==
    /\ Waiting(c, "d_umount_cdrom")
    /\ \E ok \in BOOLEAN :
        LET rec == [calls[c] EXCEPT !.results = Append(@, ok)]
            mt == Umounted(mtab, Path(rec.target, "cdrom"))
        IN
        /\ ok => CanUmount(mtab, Path(rec.target, "cdrom"))
        /\ IF ~ok
           THEN /\ calls' = [calls EXCEPT ![c] = Fail(rec, "umount")]
                /\ UNCHANGED <<mtab, tree, exists>>
           ELSE IF ~DirExists(exists, rec.target)
                   \/ Look(tree, mt, rec.target, "cdrom") = Absent
           THEN \* os.rmdir raises
                /\ mtab' = mt
                /\ calls' = [calls EXCEPT ![c] = Fail(rec, "rmdir")]
                /\ UNCHANGED <<tree, exists>>
           ELSE LET r == RestoreNext(
                             [rec EXCEPT !.nets = Append(@, has_network)],
                             RestoreDirs(has_network), exists,
                             Del(tree, mt, rec.target, "cdrom"), mt)
                IN  /\ mtab' = mt
                    /\ tree' = r.tree
                    /\ exists' = r.exists
                    /\ calls' = [calls EXCEPT ![c] = r.rec]
    /\ UNCHANGED <<variant, configured, mounts, tdirs, has_network, mountlog>>

\* a cp of the restore loop returns (lines 156-165)
RestoreCopyDone(c) ==
    /\ Waiting(c, "d_cp")
    /\ \E ok \in BOOLEAN :
        LET rec == calls[c]
            dir == Head(rec.restore)
        IN
        /\ ok => /\ rec.root # NoneDir
                 /\ DirExists(exists, rec.root)
                 /\ DirExists(exists, rec.target)
                 /\ Look(tree, mtab, rec.root, DirRoot(dir)) # Absent
        /\ IF ~ok
           THEN /\ calls' = [calls EXCEPT ![c] = Fail(rec, "cp")]
                /\ UNCHANGED <<tree, exists>>
           ELSE LET r == RestoreNext([rec EXCEPT !.copied = Append(@, dir)],
                             Tail(rec.restore), exists,
                             CopySub(tree, mtab, rec.root, rec.target, dir),
                             mtab)
                IN  /\ tree' = r.tree
                    /\ exists' = r.exists
                    /\ calls' = [calls EXCEPT ![c] = r.rec]
    /\ UNCHANGED <<variant, configured, mounts, tdirs, has_network, mtab,
                   mountlog>>

\* can apt-get update run in root
CanUpdate(ex, tr, mt, root) ==
    DirExists(ex, root) /\ Look(tr, mt, root, "sl") # Absent

Updated(tr, mt, root) ==
    Put(tr, mt, root, "lists", IndexOf(Look(tr, mt, root, "sl")))

\* the update before the unmounts returns (lines 163-168)
DeconfigureUpdate1Done(c) ==
    /\ Waiting(c, "d_update1")
    /\ \E ok \in BOOLEAN :
        LET rec == calls[c] IN
        /\ ok => CanUpdate(exists, tree, mtab, rec.root)
        /\ IF ~ok
           THEN /\ calls' = [calls EXCEPT ![c] = Fail(rec, "update")]
                /\ UNCHANGED <<tree, exists>>
           ELSE LET r == UnmountLoop(rec, exists,
                                     Updated(tree, mtab, rec.root), mtab)
                IN  /\ tree' = r.tree
                    /\ exists' = r.exists
                    /\ calls' = [calls EXCEPT ![c] = r.rec]
    /\ UNCHANGED <<variant, configured, mounts, tdirs, has_network, mtab,
                   mountlog>>

\* an unmount of the loop returns (lines 167-174)
UmountTrackedDone(c) ==
    /\ Waiting(c, "d_umount")
    /\ \E ok \in BOOLEAN :
        LET rec == [calls[c] EXCEPT !.results = Append(@, ok)]
            mt == IF ok THEN Umounted(mtab, mounts[rec.i]) ELSE mtab
            r == UnmountNext(rec, ok, exists, tree, mt)
        IN
        /\ ok => CanUmount(mtab, mounts[rec.i])
        /\ mtab' = mt
        /\ tree' = r.tree
        /\ exists' = r.exists
        /\ calls' = [calls EXCEPT ![c] = r.rec]
    /\ UNCHANGED <<variant, configured, mounts, tdirs, has_network, mountlog>>

\* the update after the removal of the scratch directories returns
\* (lines 171-174)
DeconfigureUpdate2Done(c) ==
    /\ Waiting(c, "d_update2")
    /\ \E ok \in BOOLEAN :
        LET rec == calls[c] IN
        /\ ok => CanUpdate(exists, tree, mtab, rec.root)
        /\ tree' = IF ok THEN Updated(tree, mtab, rec.root) ELSE tree
        /\ calls' = [calls EXCEPT ![c] =
               IF ok THEN [rec EXCEPT !.pc = "done"] ELSE Fail(rec, "update")]
    /\ UNCHANGED <<variant, configured, mounts, tdirs, has_network, exists,
                   mtab, mountlog>>

(* ---------------------------- specification ---------------------------- *)
Next ==
    \/ Configure
    \/ \E c \in DOMAIN calls : SetupOverlay1Done(c)
    \/ \E c \in DOMAIN calls : AptConfigDone(c)
    \/ \E c \in DOMAIN calls : SetupOverlay2Done(c)
    \/ \E c \in DOMAIN calls : BindMountDone(c)
    \/ \E c \in DOMAIN calls : ConfigureUpdateDone(c)
    \/ Deconfigure
    \/ \E c \in DOMAIN calls : UmountCdromDone(c)
    \/ \E c \in DOMAIN calls : RestoreCopyDone(c)
    \/ \E c \in DOMAIN calls : DeconfigureUpdate1Done(c)
    \/ \E c \in DOMAIN calls : UmountTrackedDone(c)
    \/ \E c \in DOMAIN calls : DeconfigureUpdate2Done(c)
    \/ NetworkChange

Spec == Init /\ [][Next]_vars

(* ------------------------------- claims -------------------------------- *)
Reverse(q) == [n \in 1..Len(q) |-> q[Len(q) + 1 - n]]
IsPrefix(p, q) == Len(p) <= Len(q) /\ \A n \in 1..Len(p) : p[n] = q[n]

IsConfigure(c) == c \in DOMAIN calls /\ calls[c].op = "configure"
IsDeconfigure(c) == c \in DOMAIN calls /\ calls[c].op = "deconfigure"

\* the session is used as its state machine prescribes: every call so far
\* was started in the state it is valid in
InOrder == \A c \in DOMAIN calls : calls[c].ordered

\* a deconfigure of a session used in order, in the real variant
RealTeardown(c) == IsDeconfigure(c) /\ InOrder /\ variant = "real"

\* C1: when deconfigure is called with the root configure returned, after
\* configure recorded N mounts, the unmounts deconfigure issues are the N
\* tracked mountpoints in reverse order of recording: at any moment a
\* prefix of that list, and all of it once deconfigure has returned.
C1_MountUnmountSymmetry ==
    \A c \in DOMAIN calls :
        (RealTeardown(c) /\ calls[c].target = calls[1].ret) =>
            /\ IsPrefix(calls[c].unmounts, Reverse(mounts))
            /\ calls[c].pc = "done" => calls[c].unmounts = Reverse(mounts)

\* a call has allocated, mounted, unmounted or removed something
Acted(rec) ==
    \/ rec.otarget # NoneDir
    \/ rec.unmounts # <<>>
    \/ rec.removed # {}

\* C2: a configure started in any state but Unconfigured and a
\* deconfigure started in any state but Configured is rejected with a
\* failure and performs none of its steps.
C2_StateMachineGuard ==
    \A c \in DOMAIN calls :
        ~calls[c].ordered => calls[c].pc = "failed" /\ ~Acted(calls[c])

\* calls[c] is the deconfigure of a session used in order, and returned
Restored(c) == IsDeconfigure(c) /\ InOrder /\ calls[c].pc = "done"

\* target/etc/apt exists and holds what configured/etc/apt held when
\* deconfigure began
Faithful(c) ==
    /\ Look(tree, mtab, calls[c].target, "apt") # Absent
    /\ SubView(tree, mtab, calls[c].target, "etc/apt") = calls[c].snap

\* C3: once deconfigure(installRoot) has returned, installRoot's etc/apt
\* exists and equals the etc/apt the configured overlay had when
\* deconfigure began.
C3_RestorationFidelity == \A c \in DOMAIN calls : Restored(c) => Faithful(c)

\* C4: a deconfigure that finds the network available runs the index
\* update once, and not before every tracked mount has been unmounted.
C4_OneUpdateAfterUnmounts ==
    \A c \in DOMAIN calls :
        (RealTeardown(c) /\ \A n \in DOMAIN calls[c].nets : calls[c].nets[n]) =>
            /\ Len(calls[c].updates) <= 1
            /\ \A n \in DOMAIN calls[c].updates : calls[c].updates[n] = 0
            /\ calls[c].pc = "done" => Len(calls[c].updates) = 1

\* C5: after configure and then deconfigure have both returned, in
\* either variant, no tracked mountpoint is mounted and no scratch
\* directory the session allocated is left.
C5_NoLeak ==
    (Len(calls) = 2 /\ calls[1].pc = "done" /\ Restored(2)) =>
        /\ StillMounted(mounts, mtab) = {}
        /\ \A n \in DOMAIN tdirs : tdirs[n] \notin exists

\* C6: in the simulation variant no mount command is run and the tracked
\* mount list stays empty.
C6_DryMountsNothing ==
    variant = "dry" => mounts = <<>> /\ mountlog = <<>>

\* the mountpoints of the mount commands that returned success, in the
\* order they returned
Succeeded(log) ==
    LET good == SelectSeq(log, LAMBDA e : e.ok)
    IN  [n \in 1..Len(good) |-> good[n].mp]

\* C7: the tracked list holds exactly the mountpoints whose mount command
\* returned success, in the order they succeeded; a failed mount adds
\* nothing.
C7_TrackedIffMounted == mounts = Succeeded(mountlog)

\* a mount failed after another had succeeded
C7_Witness ==
    /\ mounts # <<>>
    /\ \E n \in DOMAIN mountlog : ~mountlog[n].ok

\* C8: when an unmount issued by deconfigure fails, deconfigure ends there
\* with that failure: it is the last unmount the call issued, and the call
\* removed no scratch directory.
C8_FailedUnmountIsFatal ==
    \A c \in DOMAIN calls :
        \A n \in DOMAIN calls[c].results :
            ~calls[c].results[n] =>
                /\ calls[c].pc = "failed"
                /\ calls[c].failure = "umount"
                /\ n = Len(calls[c].results)
                /\ Len(calls[c].unmounts) = n
                /\ calls[c].removed = {}

\* an unmount of the loop failed after earlier ones had succeeded, with
\* tracked mounts left to unmount
C8_Witness ==
    \E c \in DOMAIN calls :
        /\ Len(calls[c].results) >= 3
        /\ ~calls[c].results[Len(calls[c].results)]
        /\ calls[c].i > 1

\* C9: a scratch directory is removed only when no mount of the table uses
\* it as mountpoint or as a layer.
C9_RemovedAfterUnmount ==
    [][\A d \in exists \ exists' : ~Referenced(mtab', d)]_vars

\* the call has passed the branch on has_network of configure
Branched(c) ==
    IsConfigure(c) /\ calls[c].nets # <<>> /\ calls[c].failure # "rename"

\* C10 as stated: every configure call does exactly one of: move
\* sources.list aside, remove the proxy fragment; and does the first
\* exactly when it read the network as available.
C10_ExactlyOneBranchAction ==
    \A c \in DOMAIN calls :
        Branched(c) =>
            /\ calls[c].moved # calls[c].unlinked
            /\ calls[c].moved = calls[c].nets[1]

\* for_install is as the configure call left it
Untouched(c) ==
    /\ \A x \in DOMAIN calls : calls[x].op = "configure"
    /\ calls[c].for_install \in exists
    /\ variant = "real" => Path(calls[c].for_install, "") \in Mountpoints(mtab)

\* C10 amended: a configure call never does both; it moves sources.list
\* aside exactly when it read the network as available, and removes the
\* proxy fragment exactly when it read the network as unavailable and the
\* fragment was there, so that it does neither when there is no network
\* and no fragment.  While no other call has touched for_install,
\* original.list exists in the first case and the fragment is absent in
\* the second.
C10_NetworkBranch ==
    \A c \in DOMAIN calls :
        Branched(c) =>
            /\ ~(calls[c].moved /\ calls[c].unlinked)
            /\ calls[c].moved = calls[c].nets[1]
            /\ calls[c].unlinked = (~calls[c].nets[1] /\ calls[c].hadproxy)
            /\ (Untouched(c) /\ InOrder) =>
                 LET fi == calls[c].for_install IN
                 /\ calls[c].nets[1] => Look(tree, mtab, fi, "orig") # Absent
                 /\ ~calls[c].nets[1] => Look(tree, mtab, fi, "proxy") = Absent
                 /\ (calls[c].nets[1] /\ calls[c].hadproxy)
                       => Look(tree, mtab, fi, "proxy") # Absent

\* a configure call without network found no proxy fragment and did
\* neither action
C10_Witness ==
    \E c \in DOMAIN calls :
        /\ Branched(c) /\ calls[c].pc = "done"
        /\ ~calls[c].moved /\ ~calls[c].unlinked

Range(q) == {q[n] : n \in DOMAIN q}

\* the call has copied var/lib/apt/lists from the configured overlay
ListsRestored(c) == "var/lib/apt/lists" \in Range(calls[c].copied)
\* the call has started apt-get update in its target
UpdateRun(c) == calls[c].updates # <<>>

\* C11: a deconfigure call never both restores var/lib/apt/lists and runs
\* the index update, and once it has returned it has done exactly one of
\* the two: the restore when it found the network unavailable, the update
\* when it found it available; also when the network changes while the
\* call is suspended.
C11_RestoreXorUpdate ==
    \A c \in DOMAIN calls :
        RealTeardown(c) =>
            /\ ~(ListsRestored(c) /\ UpdateRun(c))
            /\ calls[c].pc = "done" =>
                 /\ ListsRestored(c) # UpdateRun(c)
                 /\ ListsRestored(c) = ~calls[c].nets[1]

\* the second overlay of configure call c is mounted, in the real variant
\* of a session used in order
Stacked(c) ==
    /\ IsConfigure(c) /\ InOrder /\ variant = "real"
    /\ OverlaysAt(mtab, calls[c].for_install) # {}

\* what a path holds below an overlay whose lower layers are upper, then
\* source
Beneath(upper, source, k) ==
    IF tree[upper][k] = Absent THEN tree[source][k]
    ELSE IF tree[upper][k] = Whiteout THEN Absent
    ELSE tree[upper][k]

\* C12: the lower layers of the for_install overlay are the first
\* overlay's upper layer, then the source, in that order: below
\* for_install every path stage 1 wrote holds what stage 1 wrote (the
\* sources.list of apt-config), every other path what the source holds,
\* which is what the configured root shows.
C12_StageIsolation ==
    \A c \in DOMAIN calls :
        Stacked(c) =>
            LET m == OverlayAt(mtab, calls[c].for_install)
                upper == calls[c].config_upper.d
            IN  /\ m.lower = <<upper, SourceRoot>>
                /\ \A k \in Keys :
                     Resolve(tree, m.lower, k) = Beneath(upper, SourceRoot, k)
                /\ Resolve(tree, m.lower, "sl") = "mirror"
                /\ Resolve(tree, m.lower, "lists") = tree[SourceRoot]["lists"]
                /\ OverlaysAt(mtab, configured) # {} =>
                     \A k \in Keys : Resolve(tree, m.lower, k)
                                       = Look(tree, mtab, configured, k)

\* configure returned after stage 1 wrote a proxy fragment the source
\* does not have
C12_Witness ==
    \E c \in DOMAIN calls :
        /\ Stacked(c) /\ calls[c].pc = "done"
        /\ tree[SourceRoot]["proxy"] = Absent
        /\ Resolve(tree, OverlayAt(mtab, calls[c].for_install).lower, "proxy")
             = "proxy"

\* C13: no step of configure or deconfigure, in either variant, changes
\* what the source holds, and no mount is ever made on the source or with
\* the source as its writable layer.
C13_SourceNeverMutated ==
    [][/\ tree'[SourceRoot] = tree[SourceRoot]
       /\ \A m \in mtab' : m.mp.d # SourceRoot /\ m.upper # SourceRoot]_vars

\* configure returned a root whose sources.list is not the source's, and
\* a deconfigure has restored a target from the configured root
C13_Witness ==
    /\ \E c \in DOMAIN calls :
        /\ IsConfigure(c) /\ calls[c].pc = "done"
        /\ Look(tree, mtab, calls[c].ret, "sl") # tree[SourceRoot]["sl"]
    /\ \E c \in DOMAIN calls :
        IsDeconfigure(c) /\ calls[c].copied # <<>>
    /\ tree[SourceRoot] \in SourceTrees

\* the call is suspended on an external command
InProgress(c) == calls[c].pc \notin {"done", "failed"}

\* C14: at most one configure or deconfigure call of the session is in
\* progress: while one is suspended on an external command no other call
\* begins its steps.
C14_NoReentry ==
    Cardinality({c \in DOMAIN calls : InProgress(c)}) <= 1

\* configure call c returns in this step
Returns(c) ==
    IsConfigure(c) /\ calls[c].pc = "c_update" /\ calls'[c].pc = "done"

SessionMounted == Mountpoints(mtab) \ {Path(InstalledRoot, "cdrom")}

\* C16: a configure that failed at any of its steps has issued no unmount
\* and removed no scratch directory; at that moment every mount that
\* succeeded is still mounted and in the tracked list, and every scratch
\* directory allocated is still there and in the tracked list.
C16_NoRollback ==
    \A c \in DOMAIN calls :
        (IsConfigure(c) /\ calls[c].pc = "failed") =>
            /\ calls[c].unmounts = <<>>
            /\ calls[c].removed = {}
            /\ Len(calls) = 1 =>
                 /\ Range(mounts) = SessionMounted
                 /\ mounts = Succeeded(mountlog)
                 /\ Range(tdirs) = exists
                 /\ Len(tdirs) = Cardinality(exists)

\* the bind mount of configure failed after both overlays were set up
C16_Witness ==
    /\ Len(calls) = 1 /\ IsConfigure(1)
    /\ calls[1].pc = "failed" /\ calls[1].failure = "mount"
    /\ variant = "real" /\ Len(mounts) = 2 /\ Len(tdirs) = 4

\* the only call of the session is a configure at pc
Alone(pc) == Len(calls) = 1 /\ IsConfigure(1) /\ calls[1].pc = pc

\* C17: apt-config runs with the configured overlay set up and the second
\* overlay not begun, and has written its sources.list before the second
\* overlay is set up; apt-get update runs with both overlays and the bind
\* mount of the media in place, the network branch taken and the media
\* line written; configure returns for_install, not the configured root.
C17_ConfigureOrder ==
    LET fi == calls[1].for_install IN
    /\ Alone("c_aptconfig") =>
         /\ fi = NoneDir
         /\ variant = "real" =>
              /\ mounts = <<Path(configured, "")>>
              /\ OverlaysAt(mtab, configured) # {}
         /\ variant = "dry" => Look(tree, mtab, configured, "apt") # Absent
         /\ Look(tree, mtab, configured, "sl") = tree[SourceRoot]["sl"]
    /\ Alone("c_overlay2") =>
         /\ Look(tree, mtab, configured, "sl") = "mirror"
         /\ OverlaysAt(mtab, fi) = {}
         /\ Look(tree, mtab, fi, "apt") = Absent
    /\ Alone("c_update") =>
         /\ variant = "real" =>
              /\ mounts = <<Path(configured, ""), Path(fi, ""),
                            Path(fi, "cdrom")>>
              /\ OverlaysAt(mtab, fi) # {}
         /\ Path(fi, "cdrom") \in Mountpoints(mtab)
         /\ Len(calls[1].nets) = 1
         /\ calls[1].moved => Look(tree, mtab, fi, "orig") = "mirror"
         /\ Look(tree, mtab, fi, "sl") = MediaLine(calls[1].codename)
         /\ Look(tree, mtab, fi, "lists") # "index of media"
    /\ Alone("done") =>
         /\ calls[1].ret = fi
         /\ calls[1].ret # configured
         /\ Look(tree, mtab, fi, "lists") = "index of media"

\* configure returned after it ran with the network available
C17_Witness ==
    /\ Alone("done") /\ calls[1].moved
    /\ calls[1].ret \in exists

\* deconfigure call c has apt-get update running in its target
Updating(c) ==
    IsDeconfigure(c) /\ calls[c].pc \in {"d_update1", "d_update2"}

\* C18: whenever deconfigure runs the index update, its target is a
\* directory that exists, with its overlay still mounted when it is a
\* root configure set up, and, in a session used in order, with etc/apt
\* as restored from the configured overlay.
C18_UpdateInLiveRoot ==
    \A c \in DOMAIN calls :
        Updating(c) =>
            /\ DirExists(exists, calls[c].target)
            /\ calls[c].target \in Range(tdirs) =>
                 OverlaysAt(mtab, calls[c].target) # {}
            /\ InOrder => Faithful(c)

\* the update after the removal of the scratch directories is running,
\* in the installed system
C18_Witness ==
    \E c \in DOMAIN calls :
        /\ Updating(c) /\ InOrder
        /\ calls[c].pc = "d_update2"
        /\ calls[c].removed # {}
        /\ Len(calls[c].updates) = 2

\* the files of etc/apt a copy carries over
Copied == {"apt", "sl", "proxy"}

\* C19: in the simulation variant the first setup_overlay copies etc/apt
\* of the source into the configured directory and returns the marked
\* handle of that directory; the second, given that handle joined with the
\* source, copies etc/apt of the configured directory, with what apt-config
\* wrote there, and not of the source; after each of them sources.list.d
\* of the target exists and is empty.
C19_DryThreading ==
    variant = "dry" =>
        LET fi == calls[1].for_install IN
        /\ Alone("c_aptconfig") =>
             /\ calls[1].config_upper = Handle(TRUE, configured)
             /\ \A k \in Copied : tree[configured][k] = tree[SourceRoot][k]
             /\ tree[configured]["sld"] = "dir"
             /\ tree[configured]["orig"] = Absent
        /\ Alone("c_overlay2") =>
             calls[1].source = <<Handle(FALSE, configured)>>
        /\ Alone("c_bind") =>
             /\ \A k \in Copied : tree[fi][k] = tree[configured][k]
             /\ tree[fi]["sl"] = "mirror"
             /\ tree[fi]["sl"] # tree[SourceRoot]["sl"]
             /\ tree[fi]["sld"] = "dir"
             /\ tree[fi]["orig"] = Absent
             /\ tree[fi]["lists"] = Absent

\* the second copy was taken after apt-config wrote a proxy fragment, from
\* a source with a fragment in sources.list.d
C19_Witness ==
    /\ variant = "dry" /\ Alone("c_bind")
    /\ tree[SourceRoot]["orig"] = "fragment"
    /\ tree[calls[1].for_install]["proxy"] = "proxy"

\* C20: a real-variant configure that returned has allocated four tracked
\* scratch directories: the configured root, the layer directory of the
\* first overlay, for_install, the layer directory of the second overlay;
\* and recorded three mounts: the configured overlay, the for_install
\* overlay, the media at for_install/cdrom, in that order.  In every state
\* the mountpoint and the layer directory of every tracked overlay are
\* tracked scratch directories.
C20_ResourceAccounting ==
    /\ (variant = "real" /\ Alone("done")) =>
         LET fi == calls[1].for_install IN
         /\ tdirs = <<configured, calls[1].config_upper.d, fi, calls[1].tdir>>
         /\ Cardinality(Range(tdirs)) = 4
         /\ Range(tdirs) = exists
         /\ mounts = <<Path(configured, ""), Path(fi, ""), Path(fi, "cdrom")>>
    /\ \A n \in DOMAIN mounts :
         \A m \in mtab :
             (m.mp = mounts[n] /\ m.type = "overlay") =>
                 /\ m.mp.d \in Range(tdirs)
                 /\ m.upper \in Range(tdirs)
                 /\ m.upper # m.mp.d

\* a real-variant configure returned with both overlays and the media
\* mounted
C20_Witness ==
    /\ variant = "real" /\ Alone("done")
    /\ Cardinality(SessionMounted) = 3
    /\ Cardinality({m \in mtab : m.type = "overlay"}) = 2

====
